---- MODULE Spec2Model ----
(***************************************************************************)
(* XGBDTree (dtreeviz/models/xgb_decision_tree.py): the adapter that turns *)
(* one tree of an XGBoost booster into child-link arrays, node attributes  *)
(* and per-node sample lists.                                              *)
(*                                                                         *)
(* Strings the code takes apart (child references "T-k", objective names   *)
(* "binary:logistic") are sequences of one-character strings, so that      *)
(* str.split and int() are computed and not assumed.  A numpy array or a   *)
(* table column indexed from 0 is a sequence indexed from 1: node id i is  *)
(* at position i + 1.                                                      *)
(***************************************************************************)
EXTENDS Integers, Sequences, FiniteSets, TLC

VARIABLES booster, tree_index, x_data,
          tree_to_dataframe, children_left, children_right, call

vars == <<booster, tree_index, x_data, tree_to_dataframe, children_left, children_right, call>>

(***************************************************************************)
(* Class constants.                                                        *)
(***************************************************************************)
LEFT_CHILDREN_COLUMN == "Yes"

RIGHT_CHILDREN_COLUMN == "No"

NO_CHILDREN == -1

NO_SPLIT == -2

NO_FEATURE == -2

ROOT_NODE == 0

(***************************************************************************)
(* Bounds of the model.                                                    *)
(***************************************************************************)
\* most nodes of a tree whose child references are enumerated freely
MaxNodes == 3

\* most child references of a table that breaks the tree shape
MaxRefs == 2

\* most training samples
MaxSamples == 2

\* the depth at which the interpreter gives up a recursion; a walk deeper
\* than the number of nodes has met a node twice and never ends by itself
RecursionLimit == MaxNodes + 2

(***************************************************************************)
(* Values.                                                                 *)
(***************************************************************************)
Range(s) == {s[i] : i \in 1..Len(s)}

Min(a, b) == IF a <= b THEN a ELSE b

\* a cell of a child column: a str, the float nan, or a number
Str(chars) == [kind |-> "str", chars |-> chars, num |-> 0]

NaNCell == [kind |-> "nan", chars |-> <<>>, num |-> 0]

Num(k) == [kind |-> "num", chars |-> <<>>, num |-> k]

\* a float of the Split column: nan or a number
NaNFloat == [nan |-> TRUE, v |-> 0]

Float(v) == [nan |-> FALSE, v |-> v]

\* the outcome of a call: a value returned or an exception raised
Returned(op, arg, value) == [op |-> op, arg |-> arg, status |-> "returned", exc |-> "none", value |-> value]

Raised(op, arg, exc) == [op |-> op, arg |-> arg, status |-> "raised", exc |-> exc, value |-> <<>>]

Ok(value) == [exc |-> "none", value |-> value]

Err(exc) == [exc |-> exc, value |-> <<>>]

(***************************************************************************)
(* str.split(sep)[...] and int(str).                                       *)
(***************************************************************************)
DigitChars == <<"0", "1", "2", "3", "4", "5", "6", "7", "8", "9">>

DigitValue(c) == (CHOOSE i \in 1..Len(DigitChars) : DigitChars[i] = c) - 1

IsDigit(c) == c \in Range(DigitChars)

RECURSIVE DigitStr(_)
\* str(n) of a natural number
DigitStr(n) ==
    IF n < 10 THEN <<DigitChars[n + 1]>>
    ELSE DigitStr(n \div 10) \o <<DigitChars[(n % 10) + 1]>>

\* the compound reference the node table gives for node k of tree t
Encode(t, k) == DigitStr(t) \o <<"-">> \o DigitStr(k)

RECURSIVE SplitFrom(_, _, _, _)
\* str.split(sep) over chars[i..], cur being the piece read so far
SplitFrom(chars, sep, i, cur) ==
    IF i > Len(chars) THEN <<cur>>
    ELSE IF chars[i] = sep THEN <<cur>> \o SplitFrom(chars, sep, i + 1, <<>>)
    ELSE SplitFrom(chars, sep, i + 1, Append(cur, chars[i]))

StrSplit(chars, sep) == SplitFrom(chars, sep, 1, <<>>)

RECURSIVE DigitsValue(_, _)
DigitsValue(chars, acc) ==
    IF chars = <<>> THEN acc
    ELSE DigitsValue(Tail(chars), 10 * acc + DigitValue(Head(chars)))

\* int(str): the digits' value, ValueError for anything else
ParseInt(chars) ==
    IF chars # <<>> /\ \A i \in 1..Len(chars) : IsDigit(chars[i])
    THEN Ok(DigitsValue(chars, 0))
    ELSE Err("ValueError")

(***************************************************************************)
(* The booster: its node table (every tree's rows, in tree and node        *)
(* order), its feature names, the objective name of its configuration, and *)
(* its leaf assignment.  x_data is kept as what the booster makes of it:   *)
(* one row per sample holding the leaf id the sample reaches in each tree. *)
(***************************************************************************)
TreeIds(b) == {b.table[i].Tree : i \in 1..Len(b.table)}

\* the trees of the ensemble are numbered from 0
NumTrees(b) == Cardinality(TreeIds(b))

\* booster.predict(DMatrix(x), pred_leaf=True): samples x trees
predict_leaf(b, x) == [nrows |-> Len(x), ncols |-> NumTrees(b), rows |-> x]

\* m[:, j] of a two-dimensional array
ColumnOf(m, j) ==
    IF j >= 0 /\ j < m.ncols THEN Ok([s \in 1..m.nrows |-> m.rows[s][j + 1]])
    ELSE IF j < 0 /\ j >= -m.ncols THEN Ok([s \in 1..m.nrows |-> m.rows[s][m.ncols + j + 1]])
    ELSE Err("IndexError")

\* np.where(arr == x)[0][0]: the first position holding x
WhereFirst(arr, x) ==
    LET hits == {i \in 1..Len(arr) : arr[i] = x}
    IN IF hits = {} THEN Err("IndexError")
       ELSE Ok((CHOOSE i \in hits : \A j \in hits : i <= j) - 1)

\* list.index(x)
ListIndex(list, x) ==
    LET hits == {i \in 1..Len(list) : list[i] = x}
    IN IF hits = {} THEN Err("ValueError")
       ELSE Ok((CHOOSE i \in hits : \A j \in hits : i <= j) - 1)

(***************************************************************************)
(* The node table of one tree and its child-link arrays.                   *)
(***************************************************************************)
_get_tree_dataframe(b, idx) == SelectSeq(b.table, LAMBDA row : row.Tree = idx)

_get_column_value(b, idx, column_name) ==
    LET df == _get_tree_dataframe(b, idx)
    IN [i \in 1..Len(df) |-> df[i][column_name]]

\* split_value keeping the piece before the separator: the tree index
split_value_TreePart(value) ==
    IF value.kind = "str"
    THEN LET parts == StrSplit(value.chars, "-")
         IN IF Len(parts) >= 1 THEN Ok(Str(parts[1])) ELSE Err("IndexError")
    ELSE Ok(value)

split_value(value) ==
    IF value.kind = "str"
    THEN LET parts == StrSplit(value.chars, "-")
         IN IF Len(parts) >= 2 THEN Ok(Str(parts[2])) ELSE Err("IndexError")
    ELSE Ok(value)

_split_column_value(df, column_name) ==
    LET cells == [i \in 1..Len(df) |-> split_value(df[i][column_name])]
    IN IF \E i \in 1..Len(df) : cells[i].exc # "none"
       THEN Err("IndexError")
       ELSE Ok([i \in 1..Len(df) |-> cells[i].value])

_change_no_children_value(children) ==
    [i \in 1..Len(children) |-> IF children[i].kind = "nan" THEN Num(NO_CHILDREN) ELSE children[i]]

\* Series.to_numpy(dtype=int)
ToIntArray(children) ==
    LET ints == [i \in 1..Len(children) |->
                    IF children[i].kind = "str" THEN ParseInt(children[i].chars)
                    ELSE IF children[i].kind = "num" THEN Ok(children[i].num)
                    ELSE Err("ValueError")]
    IN IF \E i \in 1..Len(children) : ints[i].exc # "none"
       THEN Err("ValueError")
       ELSE Ok([i \in 1..Len(children) |-> ints[i].value])

_calculate_children(df, column_name) ==
    LET children == _split_column_value(df, column_name)
    IN IF children.exc # "none" THEN children
       ELSE ToIntArray(_change_no_children_value(children.value))

nnodes_of(df) == Len(df)

(***************************************************************************)
(* Path reconstruction and sample routing.                                 *)
(***************************************************************************)
RECURSIVE walk_LeftOnly(_, _, _)
\* walk without the search of children_right
walk_LeftOnly(node_id, prediction_path, depth) ==
    IF depth > RecursionLimit THEN [exc |-> "RecursionError", value |-> prediction_path]
    ELSE IF node_id = ROOT_NODE THEN Ok(prediction_path)
    ELSE
        LET pl == WhereFirst(children_left, node_id)
        IN IF pl.exc = "IndexError" THEN Ok(prediction_path)
           ELSE walk_LeftOnly(pl.value, Append(prediction_path, pl.value), depth + 1)

RECURSIVE walk_Uncaught(_, _, _)
\* walk letting the IndexError of a failed search through
walk_Uncaught(node_id, prediction_path, depth) ==
    IF depth > RecursionLimit THEN [exc |-> "RecursionError", value |-> prediction_path]
    ELSE IF node_id = ROOT_NODE THEN Ok(prediction_path)
    ELSE
        LET pl == WhereFirst(children_left, node_id)
            pr == WhereFirst(children_right, node_id)
        IN IF pl.exc = "none"
           THEN walk_Uncaught(pl.value, Append(prediction_path, pl.value), depth + 1)
           ELSE IF pr.exc = "none"
           THEN walk_Uncaught(pr.value, Append(prediction_path, pr.value), depth + 1)
           ELSE [exc |-> "IndexError", value |-> prediction_path]

RECURSIVE walk(_, _, _)
\* walk(node_id) with prediction_path as it stands and depth frames in use
walk(node_id, prediction_path, depth) ==
    IF depth > RecursionLimit THEN [exc |-> "RecursionError", value |-> prediction_path]
    ELSE IF node_id = ROOT_NODE THEN Ok(prediction_path)
    ELSE
        LET pl == WhereFirst(children_left, node_id)
            afterLeft ==
                IF pl.exc = "IndexError" THEN Ok(prediction_path)
                ELSE walk(pl.value, Append(prediction_path, pl.value), depth + 1)
        IN IF afterLeft.exc # "none" THEN afterLeft
           ELSE LET pr == WhereFirst(children_right, node_id)
                IN IF pr.exc = "IndexError" THEN afterLeft
                   ELSE walk(pr.value, Append(afterLeft.value, pr.value), depth + 1)

\* the path started empty, without the leaf
_get_leaf_prediction_path_NoStart(leaf) == walk(leaf, <<>>, 1)

_get_leaf_prediction_path(leaf) == walk(leaf, <<leaf>>, 1)

RECURSIVE AppendSample_Front(_, _, _, _)
\* the sample put at the front of each list
AppendSample_Front(node_to_samples, prediction_path, i, sample_i) ==
    IF i > Len(prediction_path) THEN node_to_samples
    ELSE LET node_id == prediction_path[i]
             old == IF node_id \in DOMAIN node_to_samples THEN node_to_samples[node_id] ELSE <<>>
             new == [k \in DOMAIN node_to_samples \cup {node_id} |->
                        IF k = node_id THEN <<sample_i>> \o old ELSE node_to_samples[k]]
         IN AppendSample_Front(new, prediction_path, i + 1, sample_i)

RECURSIVE AppendSample(_, _, _, _)
\* for node_id in prediction_path[i..]: node_to_samples[node_id].append(sample_i)
AppendSample(node_to_samples, prediction_path, i, sample_i) ==
    IF i > Len(prediction_path) THEN node_to_samples
    ELSE LET node_id == prediction_path[i]
             old == IF node_id \in DOMAIN node_to_samples THEN node_to_samples[node_id] ELSE <<>>
             new == [k \in DOMAIN node_to_samples \cup {node_id} |->
                        IF k = node_id THEN Append(old, sample_i) ELSE node_to_samples[k]]
         IN AppendSample(new, prediction_path, i + 1, sample_i)

RECURSIVE RouteSamples(_, _, _)
\* the loop over enumerate(prediction_leaves), from the i-th sample on
RouteSamples(prediction_leaves, i, node_to_samples) ==
    IF i > Len(prediction_leaves) THEN Ok(node_to_samples)
    ELSE LET prediction_path == _get_leaf_prediction_path(prediction_leaves[i])
         IN IF prediction_path.exc # "none" THEN Err(prediction_path.exc)
            ELSE RouteSamples(prediction_leaves, i + 1,
                              AppendSample(node_to_samples, prediction_path.value, 1, i - 1))

EmptyMapping == [k \in {} |-> <<>>]

get_node_samples_result ==
    LET prediction_leaves == ColumnOf(predict_leaf(booster, x_data), tree_index)
    IN IF prediction_leaves.exc # "none" THEN prediction_leaves
       ELSE RouteSamples(prediction_leaves.value, 1, EmptyMapping)

AsCall(op, arg, r) == IF r.exc = "none" THEN Returned(op, arg, r.value) ELSE Raised(op, arg, r.exc)

Frame == UNCHANGED <<booster, tree_index, x_data, tree_to_dataframe, children_left, children_right>>

get_node_samples ==
    /\ call' = AsCall("get_node_samples", <<>>, get_node_samples_result)
    /\ Frame

get_leaf_prediction_path ==
    \E leaf \in 0..(nnodes_of(tree_to_dataframe) - 1) :
        /\ call' = AsCall("_get_leaf_prediction_path", <<leaf>>, _get_leaf_prediction_path(leaf))
        /\ Frame

(***************************************************************************)
(* Node count, child arrays and node attributes.                           *)
(***************************************************************************)
nnodes ==
    /\ call' = Returned("nnodes", <<>>, nnodes_of(tree_to_dataframe))
    /\ Frame

get_children_left ==
    /\ call' = AsCall("get_children_left", <<>>, _calculate_children(tree_to_dataframe, LEFT_CHILDREN_COLUMN))
    /\ Frame

get_children_right ==
    /\ call' = AsCall("get_children_right", <<>>, _calculate_children(tree_to_dataframe, RIGHT_CHILDREN_COLUMN))
    /\ Frame

\* the raw value returned whatever it is
get_node_split_NoSentinel(b, idx, id) == _get_column_value(b, idx, "Split")[id + 1]

get_node_split_result(b, idx, id) ==
    LET node_split == _get_column_value(b, idx, "Split")[id + 1]
    IN IF ~node_split.nan THEN node_split ELSE Float(NO_SPLIT)

\* the ValueError of list.index left uncaught
get_node_feature_Uncaught(b, idx, id) ==
    ListIndex(b.feature_names, _get_column_value(b, idx, "Feature")[id + 1])

get_node_feature_result(b, idx, id) ==
    LET feature_name == _get_column_value(b, idx, "Feature")[id + 1]
        found == ListIndex(b.feature_names, feature_name)
    IN IF found.exc = "ValueError" THEN Ok(NO_FEATURE) ELSE found

NodeIds == 0..(nnodes_of(tree_to_dataframe) - 1)

get_node_split ==
    \E id \in NodeIds :
        /\ call' = Returned("get_node_split", <<id>>, get_node_split_result(booster, tree_index, id))
        /\ Frame

get_node_feature ==
    \E id \in NodeIds :
        /\ call' = AsCall("get_node_feature", <<id>>, get_node_feature_result(booster, tree_index, id))
        /\ Frame

get_features ==
    /\ call' = Returned("get_features", <<>>,
                        [i \in 1..nnodes_of(tree_to_dataframe) |->
                            get_node_feature_result(booster, tree_index, i - 1).value])
    /\ Frame

get_thresholds ==
    /\ call' = Returned("get_thresholds", <<>>,
                        [i \in 1..nnodes_of(tree_to_dataframe) |->
                            get_node_split_result(booster, tree_index, i - 1)])
    /\ Frame

(***************************************************************************)
(* Classifier detection and the operations XGBoost trees do not support.   *)
(***************************************************************************)
BinaryChars == <<"b", "i", "n", "a", "r", "y">>

RegChars == <<"r", "e", "g">>

StartsWith(chars, pre) == Len(chars) >= Len(pre) /\ SubSeq(chars, 1, Len(pre)) = pre

\* the objective name tested with startswith
is_classifier_StartsWith(b) ==
    IF StartsWith(b.objective, BinaryChars) THEN "True"
    ELSE IF StartsWith(b.objective, RegChars) THEN "False"
    ELSE "None"

\* json.loads(save_config())["learner"]["objective"]["name"] is b.objective
is_classifier_result(b) ==
    LET objective_name == StrSplit(b.objective, ":")[1]
    IN IF objective_name = BinaryChars THEN "True"
       ELSE IF objective_name = RegChars THEN "False"
       ELSE "None"

is_classifier ==
    /\ call' = Returned("is_classifier", <<>>, is_classifier_result(booster))
    /\ Frame

NotYetSupported == "VisualisationNotYetSupportedError"

\* criterion() answering None
criterion_ReturnsNone ==
    /\ call' = Returned("criterion", <<>>, "None")
    /\ Frame

criterion ==
    /\ call' = Raised("criterion", <<>>, NotYetSupported)
    /\ Frame

get_feature_path_importance ==
    \E node_list \in {<<>>, <<0>>, <<0, 1>>} :
        /\ call' = Raised("get_feature_path_importance", <<node_list>>, NotYetSupported)
        /\ Frame

get_node_criterion ==
    /\ call' = Raised("get_node_criterion", <<>>, NotYetSupported)
    /\ Frame

get_max_depth ==
    /\ call' = Raised("get_max_depth", <<>>, NotYetSupported)
    /\ Frame

get_score ==
    /\ call' = Raised("get_score", <<>>, NotYetSupported)
    /\ Frame

get_min_samples_leaf ==
    /\ call' = Raised("get_min_samples_leaf", <<>>, NotYetSupported)
    /\ Frame

(***************************************************************************)
(* Construction.                                                           *)
(***************************************************************************)
\* the adapter after __init__(b, idx, x, ...) has run without raising
Constructed(b, idx, x) ==
    LET df == _get_tree_dataframe(b, idx)
        left == _calculate_children(df, LEFT_CHILDREN_COLUMN)
        right == _calculate_children(df, RIGHT_CHILDREN_COLUMN)
    IN /\ left.exc = "none"
       /\ right.exc = "none"
       /\ booster = b
       /\ tree_index = idx
       /\ x_data = x
       /\ tree_to_dataframe = df
       /\ children_left = left.value
       /\ children_right = right.value
       /\ call = Returned("__init__", <<>>, <<>>)

(***************************************************************************)
(* Boosters given to the adapter.                                          *)
(***************************************************************************)
ChildCell(t, k) == IF k = NO_CHILDREN THEN NaNCell ELSE Str(Encode(t, k))

\* the rows of tree t whose node i has children L[i + 1] and R[i + 1]
TreeRows(t, L, R, S, F) ==
    [i \in 1..Len(L) |->
        [Tree |-> t, Node |-> i - 1, Yes |-> ChildCell(t, L[i]), No |-> ChildCell(t, R[i]),
         Split |-> S[i], Feature |-> F[i]]]

HasChild(L, R, i) == L[i] # NO_CHILDREN \/ R[i] # NO_CHILDREN

PlainSplits(L, R) == [i \in 1..Len(L) |-> IF HasChild(L, R, i) THEN Float(1) ELSE NaNFloat]

PlainFeatures(L, R) == [i \in 1..Len(L) |-> IF HasChild(L, R, i) THEN "f0" ELSE "Leaf"]

PlainNames == <<"f0", "f1">>

BinaryLogistic == <<"b", "i", "n", "a", "r", "y", ":", "l", "o", "g", "i", "s", "t", "i", "c">>

\* every non-root node id occurs once across both arrays, the root in neither
TreeShapeOf(L, R) ==
    LET Occ(x) == Cardinality({i \in 1..Len(L) : L[i] = x}) + Cardinality({i \in 1..Len(R) : R[i] = x})
    IN /\ Occ(ROOT_NODE) = 0
       /\ \A x \in 1..(Len(L) - 1) : Occ(x) = 1

RefCount(L, R) ==
    Cardinality({i \in 1..Len(L) : L[i] # NO_CHILDREN}) + Cardinality({i \in 1..Len(R) : R[i] # NO_CHILDREN})

\* the ids the leaf assignment can give: the nodes without children
LeafIds(L, R) == {i - 1 : i \in {j \in 1..Len(L) : ~HasChild(L, R, j)}}

\* one tree, its child references any node ids of the tree: the arrays with
\* the tree shape, and those with at most MaxRefs references that break it
InitRoute ==
    \E n \in 1..MaxNodes :
        \E L \in [1..n -> (-1)..(n - 1)], R \in [1..n -> (-1)..(n - 1)] :
            /\ TreeShapeOf(L, R) \/ RefCount(L, R) <= MaxRefs
            /\ \E N \in 0..(IF TreeShapeOf(L, R) THEN MaxSamples ELSE Min(1, MaxSamples)) :
                 \E leaves \in [1..N -> LeafIds(L, R)] :
                    Constructed([table |-> TreeRows(0, L, R, PlainSplits(L, R), PlainFeatures(L, R)),
                                 feature_names |-> PlainNames,
                                 objective |-> BinaryLogistic],
                                0,
                                [s \in 1..N |-> <<leaves[s]>>])

NextRoute == get_node_samples \/ get_leaf_prediction_path

SpecRoute == InitRoute /\ [][NextRoute]_vars

(***************************************************************************)
(* Boosters of well-formed trees.                                          *)
(***************************************************************************)
Shape(L, R) == [left |-> L, right |-> R]

LeafShape == Shape(<<-1>>, <<-1>>)

StumpShape == Shape(<<1, -1, -1>>, <<2, -1, -1>>)

LeftDeepShape == Shape(<<1, 3, -1, -1, -1>>, <<2, 4, -1, -1, -1>>)

\* eleven nodes: ids of two digits
CombShape == Shape(<<1, 3, -1, 5, -1, 7, -1, 9, -1, -1, -1>>, <<2, 4, -1, 6, -1, 8, -1, 10, -1, -1, -1>>)

Shapes == {LeafShape, StumpShape, LeftDeepShape, CombShape}

RECURSIVE Concat(_)
Concat(seqs) == IF seqs = <<>> THEN <<>> ELSE Head(seqs) \o Concat(Tail(seqs))

\* the table of an ensemble: tree t - 1 has the shape shapes[t]
EnsembleTable(shapes) ==
    Concat([t \in 1..Len(shapes) |->
                TreeRows(t - 1, shapes[t].left, shapes[t].right,
                         PlainSplits(shapes[t].left, shapes[t].right),
                         PlainFeatures(shapes[t].left, shapes[t].right))])

\* ensembles of one tree, of two trees, and of eleven (tree ids of two digits)
Ensembles ==
    {<<a>> : a \in Shapes} \cup {<<a, b>> : a \in Shapes, b \in {LeafShape, StumpShape}}
        \cup {[t \in 1..11 |-> IF t = 11 THEN StumpShape ELSE LeafShape]}

RECURSIVE SortedSeq(_)
SortedSeq(S) ==
    IF S = {} THEN <<>>
    ELSE LET m == CHOOSE x \in S : \A y \in S : x <= y
         IN <<m>> \o SortedSeq(S \ {m})

\* a sample's row of leaf ids: in every tree its pick-th leaf, counted round
LeafRow(shapes, pick) ==
    [t \in 1..Len(shapes) |->
        LET leaves == SortedSeq(LeafIds(shapes[t].left, shapes[t].right))
        IN leaves[(pick % Len(leaves)) + 1]]

InitTable ==
    \E shapes \in Ensembles :
        \E idx \in (-(Len(shapes) + 1))..(Len(shapes) + 1) :
            \E N \in 0..MaxSamples :
                \E picks \in [1..N -> 0..1] :
                    Constructed([table |-> EnsembleTable(shapes),
                                 feature_names |-> PlainNames,
                                 objective |-> BinaryLogistic],
                                idx,
                                [s \in 1..N |-> LeafRow(shapes, picks[s])])

SplitValues == {NaNFloat, Float(-2), Float(1)}

FeatureValues == {"f0", "f1", "f9", "Leaf"}

NameLists == {<<>>, <<"f0", "f1">>, <<"f1", "f0", "f1">>, <<"Leaf", "f9">>}

\* one tree with any Split in every row, or with any Feature in every row
\* and any feature-name list
InitAttr ==
    \E shape \in {LeafShape, StumpShape} :
        \/ \E S \in [1..Len(shape.left) -> SplitValues] :
              Constructed([table |-> TreeRows(0, shape.left, shape.right, S,
                                              PlainFeatures(shape.left, shape.right)),
                           feature_names |-> PlainNames,
                           objective |-> BinaryLogistic],
                          0,
                          <<>>)
        \/ \E F \in [1..Len(shape.left) -> FeatureValues], names \in NameLists :
              Constructed([table |-> TreeRows(0, shape.left, shape.right,
                                              PlainSplits(shape.left, shape.right), F),
                           feature_names |-> names,
                           objective |-> BinaryLogistic],
                          0,
                          <<>>)

ObjectiveNames ==
    {pre \o mid \o post :
        pre \in {<<>>, BinaryChars, RegChars, <<"m", "u", "l", "t", "i">>, <<"b", "i", "n">>},
        mid \in {<<>>, <<"x">>},
        post \in {<<>>, <<":">>, <<":", "l", "o", "g", "i", "s", "t", "i", "c">>,
                  <<":", "s", "q", "u", "a", "r", "e", "d", "e", "r", "r", "o", "r">>,
                  <<":", "r", "e", "g">>, <<":", "b", "i", "n", "a", "r", "y", ":", "x">>}}

\* one stump, any objective name
InitConfig ==
    \E name \in ObjectiveNames :
        Constructed([table |-> EnsembleTable(<<StumpShape>>),
                     feature_names |-> PlainNames,
                     objective |-> name],
                    0,
                    <<<<1>>>>)

Init == InitTable \/ InitAttr \/ InitConfig

Next ==
    \/ nnodes
    \/ get_children_left
    \/ get_children_right
    \/ get_node_split
    \/ get_node_feature
    \/ get_features
    \/ get_thresholds
    \/ get_node_samples
    \/ get_leaf_prediction_path
    \/ is_classifier
    \/ criterion
    \/ get_feature_path_importance
    \/ get_node_criterion
    \/ get_max_depth
    \/ get_score
    \/ get_min_samples_leaf

Spec == Init /\ [][Next]_vars

(***************************************************************************)
(* The shape of the child-link arrays, read downwards from the parents.    *)
(***************************************************************************)
Nodes == 0..(Len(children_left) - 1)

TreeShape == TreeShapeOf(children_left, children_right)

ChildrenOf(p) == {children_left[p + 1], children_right[p + 1]} \ {NO_CHILDREN}

RECURSIVE Below(_, _)
Below(S, k) ==
    IF k = 0 THEN S
    ELSE Below(S \cup UNION {ChildrenOf(p) : p \in S \cap Nodes}, k - 1)

\* p and every node under it
Subtree(p) == Below({p}, Len(children_left))

\* no node is cut off from the root: with TreeShape, the links form a tree
RootReachesAll == Nodes \subseteq Subtree(ROOT_NODE)

RECURSIVE LevelSet(_)
LevelSet(k) == IF k = 0 THEN {ROOT_NODE} ELSE UNION {ChildrenOf(p) : p \in LevelSet(k - 1) \cap Nodes}

DepthOf(x) == CHOOSE k \in 0..Len(children_left) : x \in LevelSet(k)

ParentOf(x) == CHOOSE p \in Nodes : x \in ChildrenOf(p)

\* the parents the upward search finds for x: the first row naming x in each array
FirstAt(arr, x) == {p \in Nodes : arr[p + 1] = x /\ \A q \in Nodes : arr[q + 1] = x => p <= q}

WalkParents(x) == IF x = ROOT_NODE THEN {} ELSE FirstAt(children_left, x) \cup FirstAt(children_right, x)

RECURSIVE Above(_, _)
Above(S, k) ==
    IF k = 0 THEN S
    ELSE Above(S \cup UNION {WalkParents(x) : x \in S}, k - 1)

\* the nodes an upward search from x comes to
Visited(x) == Above({x}, Len(children_left))

\* x is no root and no row names it as a child
Orphan(x) == x # ROOT_NODE /\ WalkParents(x) = {}

\* the upward search from x comes to a node that is above itself
MeetsCycle(x) == \E y \in Visited(x) : y \in Above(WalkParents(y), Len(children_left))

\* the leaf the booster assigns sample s in the selected tree
AssignedLeaf(s) == x_data[s + 1][tree_index + 1]

Samples == 0..(Len(x_data) - 1)

\* node_to_samples[k] of a defaultdict(list)
ListAt(m, k) == IF k \in DOMAIN m THEN m[k] ELSE <<>>

NoRepeat(seq) == \A i, j \in 1..Len(seq) : i # j => seq[i] # seq[j]

Ascending(seq) == \A i, j \in 1..Len(seq) : i < j => seq[i] < seq[j]

(***************************************************************************)
(* Claims on path reconstruction and sample routing (SpecRoute).           *)
(***************************************************************************)
\* C1: for child-link arrays with the tree shape, get_node_samples() returns
\* when the links form a tree, and the mapping it returns lists every sample
\* under its assigned leaf and under the root, the root's list having N entries.
C1_RoutingExhaustive ==
    (call.op = "get_node_samples" /\ TreeShape) =>
        /\ RootReachesAll => call.status = "returned"
        /\ call.status = "returned" =>
             /\ \A s \in Samples : s \in Range(ListAt(call.value, AssignedLeaf(s)))
             /\ \A s \in Samples : s \in Range(ListAt(call.value, ROOT_NODE))
             /\ Len(ListAt(call.value, ROOT_NODE)) = Len(x_data)

C1_Witness ==
    /\ call.op = "get_node_samples"
    /\ call.status = "returned"
    /\ TreeShape
    /\ RootReachesAll
    /\ Len(children_left) = 3
    /\ Len(x_data) = 2
    /\ AssignedLeaf(0) # AssignedLeaf(1)
    /\ Len(ListAt(call.value, ROOT_NODE)) = 2

PathToRoot(leaf, path) ==
    /\ Len(path) >= 1
    /\ path[1] = leaf
    /\ \A i \in 1..(Len(path) - 1) : path[i] # ROOT_NODE /\ path[i + 1] = ParentOf(path[i])
    /\ path[Len(path)] = ROOT_NODE
    /\ NoRepeat(path)
    /\ Len(path) = DepthOf(leaf) + 1

\* C8 as amended: when the child-link arrays have the tree shape and every node
\* is reachable from the root, _get_leaf_prediction_path(leaf) returns, for every
\* node id, the path from the node up to the root: it starts at the node, each
\* next element is the parent of the one before, it ends at the root, holds no
\* node twice and is as long as the node's depth plus one.
C8_PathToRootOfTree ==
    (call.op = "_get_leaf_prediction_path" /\ TreeShape /\ RootReachesAll) =>
        /\ call.status = "returned"
        /\ PathToRoot(call.arg[1], call.value)

\* C8 as stated: the tree shape alone (every non-root node id once across both
\* arrays, the root in neither) makes the walk end with the path to the root.
C8_Original ==
    (call.op = "_get_leaf_prediction_path" /\ TreeShape) =>
        /\ call.status = "returned"
        /\ PathToRoot(call.arg[1], call.value)

C8_Witness ==
    /\ call.op = "_get_leaf_prediction_path"
    /\ TreeShape
    /\ RootReachesAll
    /\ call.status = "returned"
    /\ Len(call.value) = 3
    /\ DepthOf(call.arg[1]) = 2

\* the sample routed from a leaf is listed under the nodes of `visited` and no other
RecordedUnder(m, s, visited) == \A k \in Nodes : s \in Range(ListAt(m, k)) <=> k \in visited

\* C9 as amended: when the walk comes to a non-root node that neither array
\* names, and does not run into a cycle of child links, _get_leaf_prediction_path
\* returns with the node ids visited so far (the root need not be among them),
\* and get_node_samples() returns a mapping with the sample under those nodes.
C9_OrphanEndsBranch ==
    /\ (/\ call.op = "_get_leaf_prediction_path"
        /\ \E y \in Visited(call.arg[1]) : Orphan(y)
        /\ ~MeetsCycle(call.arg[1])) =>
            /\ call.status = "returned"
            /\ Range(call.value) = Visited(call.arg[1])
    /\ (/\ call.op = "get_node_samples"
        /\ \E s \in Samples : \E y \in Visited(AssignedLeaf(s)) : Orphan(y)
        /\ \A s \in Samples : ~MeetsCycle(AssignedLeaf(s))) =>
            /\ call.status = "returned"
            /\ \A s \in Samples : RecordedUnder(call.value, s, Visited(AssignedLeaf(s)))

\* C9 as stated: whenever the walk has come to a non-root node that neither
\* array names (the node is in prediction_path), _get_leaf_prediction_path
\* returns with the node ids visited so far.
C9_Original ==
    (/\ call.op = "_get_leaf_prediction_path"
     /\ \E y \in Range(_get_leaf_prediction_path(call.arg[1]).value) : Orphan(y)) =>
        /\ call.status = "returned"
        /\ Range(call.value) = Visited(call.arg[1])

C9_Witness ==
    /\ call.op = "get_node_samples"
    /\ call.status = "returned"
    /\ Len(x_data) = 1
    /\ \E y \in Visited(AssignedLeaf(0)) : Orphan(y) /\ y # AssignedLeaf(0)
    /\ ROOT_NODE \notin Visited(AssignedLeaf(0))
    /\ DOMAIN call.value = Visited(AssignedLeaf(0))

\* C10: for child-link arrays with the tree shape, the mapping get_node_samples()
\* returns holds no sample twice in a list, every list ascending, its keys the
\* nodes on some sample's path from its leaf to the root, and every node with
\* children the disjoint union of its children's samples.
C10_Partition ==
    (call.op = "get_node_samples" /\ call.status = "returned" /\ TreeShape) =>
        /\ \A k \in DOMAIN call.value : NoRepeat(call.value[k]) /\ Ascending(call.value[k])
        /\ DOMAIN call.value = {k \in Nodes : \E s \in Samples : AssignedLeaf(s) \in Subtree(k)}
        /\ \A k \in Nodes : ChildrenOf(k) # {} =>
             /\ Range(ListAt(call.value, k)) = UNION {Range(ListAt(call.value, c)) : c \in ChildrenOf(k)}
             /\ \A c, d \in ChildrenOf(k) :
                  c # d => Range(ListAt(call.value, c)) \cap Range(ListAt(call.value, d)) = {}

C10_Witness ==
    /\ call.op = "get_node_samples"
    /\ call.status = "returned"
    /\ TreeShape
    /\ Len(children_left) = 3
    /\ Cardinality(ChildrenOf(ROOT_NODE)) = 2
    /\ Len(x_data) = 2
    /\ AssignedLeaf(0) = AssignedLeaf(1)
    /\ DOMAIN call.value # Nodes
    /\ ListAt(call.value, ROOT_NODE) = <<0, 1>>

(***************************************************************************)
(* Claims on the node table, the attributes and the adapter (Spec).        *)
(***************************************************************************)
\* C2: when no row of the node table has the requested tree index, nnodes()
\* returns 0, get_node_samples() returns an empty mapping, and neither the
\* construction of the child-link arrays nor either call raises.
C2_AbsentTreeIsEmpty ==
    Len(tree_to_dataframe) = 0 =>
        /\ _calculate_children(tree_to_dataframe, LEFT_CHILDREN_COLUMN).exc = "none"
        /\ _calculate_children(tree_to_dataframe, RIGHT_CHILDREN_COLUMN).exc = "none"
        /\ call.op = "nnodes" => call.status = "returned" /\ call.value = 0
        /\ call.op = "get_node_samples" => call.status = "returned" /\ DOMAIN call.value = {}

RawSplit(id) == tree_to_dataframe[id + 1].Split

\* C3 as amended: get_node_split(id) returns -2 when the raw Split value is
\* not-a-number and the raw value unchanged otherwise; so it returns -2 if and
\* only if the raw value is not-a-number or is -2 itself.
C3_SplitOrSentinel ==
    call.op = "get_node_split" =>
        /\ call.status = "returned"
        /\ RawSplit(call.arg[1]).nan => call.value = Float(NO_SPLIT)
        /\ ~RawSplit(call.arg[1]).nan => call.value = RawSplit(call.arg[1])
        /\ call.value = Float(NO_SPLIT) <=>
               (RawSplit(call.arg[1]).nan \/ RawSplit(call.arg[1]) = Float(NO_SPLIT))

\* C3 as stated: get_node_split(id) returns -2 if and only if the raw value is
\* not-a-number, and the raw value unchanged in every other case.
C3_Original ==
    call.op = "get_node_split" =>
        /\ call.status = "returned"
        /\ call.value = Float(NO_SPLIT) <=> RawSplit(call.arg[1]).nan
        /\ ~RawSplit(call.arg[1]).nan => call.value = RawSplit(call.arg[1])

C3_Witness ==
    /\ call.op = "get_node_split"
    /\ call.status = "returned"
    /\ RawSplit(call.arg[1]).nan
    /\ call.value = Float(NO_SPLIT)

RawFeature(id) == tree_to_dataframe[id + 1].Feature

\* C4: get_node_feature(id) returns -2 if and only if the node's Feature name
\* is not in the feature-name list; for a name in the list it returns the first
\* position of the name, a value >= 0; it never raises.
C4_FeatureOrSentinel ==
    call.op = "get_node_feature" =>
        LET name == RawFeature(call.arg[1])
            names == booster.feature_names
        IN /\ call.status = "returned"
           /\ call.value = NO_FEATURE <=> name \notin Range(names)
           /\ name \in Range(names) =>
                /\ call.value >= 0
                /\ call.value < Len(names)
                /\ names[call.value + 1] = name
                /\ \A j \in 1..call.value : names[j] # name

C4_Witness ==
    /\ call.op = "get_node_feature"
    /\ call.status = "returned"
    /\ booster.feature_names # <<>>
    /\ RawFeature(call.arg[1]) \notin Range(booster.feature_names)
    /\ call.value = NO_FEATURE

\* arr is what the child column col of the node table decodes to
DecodedFrom(arr, col) ==
    /\ Len(arr) = Len(tree_to_dataframe)
    /\ \A i \in 1..Len(arr) :
         LET cell == tree_to_dataframe[i][col]
         IN /\ cell.kind = "nan" => arr[i] = NO_CHILDREN
            /\ cell.kind = "str" =>
                 /\ arr[i] \in 0..(Len(tree_to_dataframe) - 1)
                 /\ cell.chars = Encode(tree_to_dataframe[i].Tree, arr[i])

\* the table of a root with the two leaves 1 and 2
StumpTable ==
    /\ Len(tree_to_dataframe) = 3
    /\ tree_to_dataframe[1].Yes = Str(Encode(tree_index, 1))
    /\ tree_to_dataframe[1].No = Str(Encode(tree_index, 2))
    /\ \A i \in 2..3 : tree_to_dataframe[i].Yes = NaNCell /\ tree_to_dataframe[i].No = NaNCell

\* C5: each child array has nnodes() entries, entry i the node index k of row
\* i's reference "T-k" or -1 where the row has none, so every entry is -1 or a
\* node id below nnodes(); a root with two leaves gives [1, -1, -1], [2, -1, -1]
\* and nnodes() = 3.
C5_ChildArrays ==
    /\ DecodedFrom(children_left, LEFT_CHILDREN_COLUMN)
    /\ DecodedFrom(children_right, RIGHT_CHILDREN_COLUMN)
    /\ call.op = "get_children_left" =>
         call.status = "returned" /\ DecodedFrom(call.value, LEFT_CHILDREN_COLUMN)
    /\ call.op = "get_children_right" =>
         call.status = "returned" /\ DecodedFrom(call.value, RIGHT_CHILDREN_COLUMN)
    /\ call.op = "nnodes" => call.value = Len(children_left)
    /\ StumpTable =>
         /\ children_left = <<1, -1, -1>>
         /\ children_right = <<2, -1, -1>>
         /\ call.op = "nnodes" => call.value = 3

C5_Witness ==
    /\ StumpTable
    /\ tree_index = 10
    /\ call.op = "nnodes"
    /\ call.value = 3
    /\ children_left = <<1, -1, -1>>
    /\ children_right = <<2, -1, -1>>

\* the objective name up to its first ":"
BeforeColon(chars) ==
    LET colons == {i \in 1..Len(chars) : chars[i] = ":"}
        first == IF colons = {} THEN Len(chars) + 1
                 ELSE CHOOSE i \in colons : \A j \in colons : i <= j
    IN SubSeq(chars, 1, first - 1)

\* C6 as amended: is_classifier() returns true when the objective name up to
\* its first ":" is exactly "binary", false when it is exactly "reg", and the
\* indeterminate result for every other name, without raising.
C6_TriState ==
    call.op = "is_classifier" =>
        /\ call.status = "returned"
        /\ call.value = IF BeforeColon(booster.objective) = BinaryChars THEN "True"
                        ELSE IF BeforeColon(booster.objective) = RegChars THEN "False"
                        ELSE "None"

\* C6 as stated: true for every objective name beginning with "binary", false
\* for every one beginning with "reg", indeterminate for any other string.
C6_Original ==
    call.op = "is_classifier" =>
        /\ call.status = "returned"
        /\ call.value = IF StartsWith(booster.objective, BinaryChars) THEN "True"
                        ELSE IF StartsWith(booster.objective, RegChars) THEN "False"
                        ELSE "None"

C6_Witness ==
    /\ call.op = "is_classifier"
    /\ booster.objective = BinaryLogistic
    /\ call.status = "returned"
    /\ call.value = "True"

UnsupportedOps ==
    {"criterion", "get_feature_path_importance", "get_node_criterion",
     "get_max_depth", "get_score", "get_min_samples_leaf"}

\* C7: every call of one of the six unsupported operations raises the
\* not-yet-supported error, returns no value, and leaves the node table and
\* the child-link arrays as they were.
C7_UnsupportedRaise ==
    [][call'.op \in UnsupportedOps =>
          /\ call'.status = "raised"
          /\ call'.exc = NotYetSupported
          /\ tree_to_dataframe' = tree_to_dataframe
          /\ children_left' = children_left
          /\ children_right' = children_right]_vars

C7_Witness ==
    /\ call.op = "get_feature_path_importance"
    /\ call.arg = <<<<0, 1>>>>
    /\ call.status = "raised"
    /\ call.exc = NotYetSupported

====
